---------------------------- MODULE Spec2Model ----------------------------
(***************************************************************************)
(* Space-Orbit for M5Stack: the per-frame simulation of loop(), the tap     *)
(* handler addSpacecraft, Spacecraft::update and the Moon orbit driver.     *)
(*                                                                         *)
(* Numbers.  The program computes in IEEE doubles.  The model computes in   *)
(* fixed point: a length of p pixels is the integer p * FP, a velocity and  *)
(* an acceleration likewise (the time step is 1), an energy is in units of  *)
(* 1 / (FP * FP).  Tap coordinates are integers, so the tap handler's and   *)
(* the collision test's comparisons with EARTH_RADIUS are exact.            *)
(* moonAngle is kept as the number of MOON_ANGULAR_VELOCITY steps added.    *)
(***************************************************************************)
EXTENDS Integers, Sequences, FiniteSets, TLC

\* ------------------------------------------------------------------ constants
EARTH_RADIUS == 15
MOON_RADIUS == 5
MOON_DISTANCE == 100
TRAIL_LENGTH == 50
MOON_TRAIL_LENGTH == 360
MU_EARTH == 2500
MU_MOON == 250
WIDTH == 320
HEIGHT == 240
FRAME_INTERVAL == 33
SPARKLE_LIFE == 20
EXPLOSION_LIFE == 30
EARTH_EXPLOSION_SIZE == 15
MOON_EXPLOSION_SIZE == 10
SETUP_DELAY == 2000
\* MOON_ANGULAR_VELOCITY = 0.005 = 1 / ANGLE_STEPS_PER_RADIAN
ANGLE_STEPS_PER_RADIAN == 200

\* ------------------------------------------------------------------ fixed point
FP == 64
TRIG == 16384
\* coordinates (relative to a body) beyond Window are outside the arithmetic
Window == 32000

Abs(a) == IF a < 0 THEN -a ELSE a

\* C++ division of doubles, truncated toward zero on the fixed-point grid
TDiv(a, b) == IF a >= 0 THEN a \div b ELSE -((-a) \div b)

RECURSIVE SqrtIter(_, _)
SqrtIter(n, x) ==
  LET y == (x + n \div x) \div 2
  IN IF y >= x THEN x ELSE SqrtIter(n, y)

\* std::sqrt on the grid: the integer square root
Sqrt(n) == IF n < 2 THEN n ELSE SqrtIter(n, 46340)

Range(s) == {s[n] : n \in 1 .. Len(s)}

Vec(x, y) == [x |-> x, y |-> y]
VecAdd(a, b) == Vec(a.x + b.x, a.y + b.y)
VecHalf(a) == Vec(TDiv(a.x, 2), TDiv(a.y, 2))
Mag(x, y) == Sqrt(x * x + y * y)

\* ------------------------------------------------------------------ Moon
\* angle^2 for angle = k * 0.005, in units of 1/TRIG
AngleSq(k) == (k * k * (TRIG \div 64)) \div 625

Horner(x2, d, inner) == TRIG - (x2 * inner) \div (d * TRIG)

\* std::cos(k * 0.005), in units of 1/TRIG
Cos(k) ==
  LET x2 == AngleSq(k)
  IN Horner(x2, 2, Horner(x2, 12, Horner(x2, 30,
       Horner(x2, 56, Horner(x2, 90, Horner(x2, 132, TRIG))))))

\* std::sin(k * 0.005), in units of 1/TRIG
Sin(k) ==
  LET x2 == AngleSq(k)
  IN (k * Horner(x2, 6, Horner(x2, 20, Horner(x2, 42,
       Horner(x2, 72, Horner(x2, 110, Horner(x2, 156, TRIG))))))) \div ANGLE_STEPS_PER_RADIAN

MoonXAt(k) == (WIDTH \div 2) * FP + (MOON_DISTANCE * FP * Cos(k)) \div TRIG
MoonYAt(k) == (HEIGHT \div 2) * FP + (MOON_DISTANCE * FP * Sin(k)) \div TRIG

\* moonTrail.push_back; erase(begin()) when the size exceeds 360
PushMoonTrail(trail, p) ==
  LET t == Append(trail, p)
  IN IF Len(t) > MOON_TRAIL_LENGTH THEN Tail(t) ELSE t

\* ------------------------------------------------------------------ gravity
EarthX == (WIDTH \div 2) * FP
EarthY == (HEIGHT \div 2) * FP

\* mu * r / |r|^3 for one body; r is the vector from the position to the body
BodyAcceleration(rx, ry, mu) ==
  IF Abs(rx) > Window \/ Abs(ry) > Window
    THEN Vec(0, 0)
    ELSE LET m == Mag(rx, ry)
             t == (mu * FP * FP * FP) \div m
         IN Vec(TDiv(t * rx, m * m), TDiv(t * ry, m * m))

\* the position coincides with a body's centre: the double division is 0/0
Singular(pos, mx, my) ==
  \/ (pos.x = EarthX /\ pos.y = EarthY)
  \/ (pos.x = mx /\ pos.y = my)

calculateAcceleration(pos, mx, my) ==
  VecAdd(BodyAcceleration(EarthX - pos.x, EarthY - pos.y, MU_EARTH),
         BodyAcceleration(mx - pos.x, my - pos.y, MU_MOON))

\* (k1 + 2 k2 + 2 k3 + k4) / 6
RKWeighted(k1, k2, k3, k4) ==
  Vec(TDiv(k1.x + 2 * k2.x + 2 * k3.x + k4.x, 6),
      TDiv(k1.y + 2 * k2.y + 2 * k3.y + k4.y, 6))

\* the slopes k1 .. kn of the Runge-Kutta step, as <<[p, r, v]>>: p the sample
\* point (tempPos), r the position slope (tempVel), v the velocity slope
\* (the acceleration at p)
RECURSIVE RKStages(_, _, _, _, _)
RKStages(n, pos, vel, mx, my) ==
  IF n = 1
    THEN << [p |-> pos, r |-> vel, v |-> calculateAcceleration(pos, mx, my)] >>
    ELSE LET before == RKStages(n - 1, pos, vel, mx, my)
             k == before[n - 1]
             p == VecAdd(pos, IF n = 4 THEN k.r ELSE VecHalf(k.r))
         IN Append(before,
                   [p |-> p,
                    r |-> VecAdd(vel, IF n = 4 THEN k.v ELSE VecHalf(k.v)),
                    v |-> calculateAcceleration(p, mx, my)])

\* velocity.addTo(dv); position.addTo(dr)
RKStep(pos, vel, mx, my) ==
  LET st == RKStages(4, pos, vel, mx, my)
  IN [position |-> VecAdd(pos, RKWeighted(st[1].r, st[2].r, st[3].r, st[4].r)),
      velocity |-> VecAdd(vel, RKWeighted(st[1].v, st[2].v, st[3].v, st[4].v))]

\* Earth-centred specific orbital energy, 0.5 v^2 - MU_EARTH / rE
OrbitalEnergy(pos, vel) ==
  (vel.x * vel.x + vel.y * vel.y) \div 2
    - (MU_EARTH * FP * FP * FP) \div Mag(pos.x - EarthX, pos.y - EarthY)

\* energyIncrease > 0.1
ExceedsThreshold(energyIncrease) == energyIncrease > (FP * FP) \div 10

\* variant: the Earth test excludes the rim
HitsEarthStrict(pos) ==
  (pos.x - EarthX) * (pos.x - EarthX) + (pos.y - EarthY) * (pos.y - EarthY)
    < (EARTH_RADIUS * FP) * (EARTH_RADIUS * FP)

\* distToEarth <= EARTH_RADIUS
HitsEarth(pos) ==
  (pos.x - EarthX) * (pos.x - EarthX) + (pos.y - EarthY) * (pos.y - EarthY)
    <= (EARTH_RADIUS * FP) * (EARTH_RADIUS * FP)

\* variant: the Moon test takes moonX for both coordinates
HitsMoonWrongAxis(pos, mx, my) ==
  (pos.x - mx) * (pos.x - mx) + (pos.y - mx) * (pos.y - mx)
    <= (MOON_RADIUS * FP) * (MOON_RADIUS * FP)

\* distToMoon <= MOON_RADIUS
HitsMoon(pos, mx, my) ==
  (pos.x - mx) * (pos.x - mx) + (pos.y - my) * (pos.y - my)
    <= (MOON_RADIUS * FP) * (MOON_RADIUS * FP)

\* variant: the trail is never trimmed
PushTrailNoErase(trail, p) == Append(trail, p)

\* trail.push_back; erase(begin()) when the size exceeds TRAIL_LENGTH
PushTrail(trail, p) ==
  LET t == Append(trail, p)
  IN IF Len(t) > TRAIL_LENGTH THEN Tail(t) ELSE t

\* variant: swap-and-pop removal, the last element takes the place of the erased
EraseSwapPop(s, i) ==
  IF i = Len(s) THEN SubSeq(s, 1, Len(s) - 1)
  ELSE [SubSeq(s, 1, Len(s) - 1) EXCEPT ![i] = s[Len(s)]]

\* vector::erase(begin() + i), i counted from 1
Erase(s, i) == SubSeq(s, 1, i - 1) \o SubSeq(s, i + 1, Len(s))


\* ------------------------------------------------------------------ tap handler
\* dEarth < EARTH_RADIUS, for the integer tap coordinates (x, y)
ClickedEarth(x, y) ==
  (x - WIDTH \div 2) * (x - WIDTH \div 2) + (y - HEIGHT \div 2) * (y - HEIGHT \div 2)
    < EARTH_RADIUS * EARTH_RADIUS

\* dirMag, in units of 1/FP
DirMag(x, y) ==
  Sqrt(((x - WIDTH \div 2) * (x - WIDTH \div 2)
        + (y - HEIGHT \div 2) * (y - HEIGHT \div 2)) * FP * FP)

\* speed = 1 + 3 * (dirMag / (WIDTH / 2))
LaunchSpeed(x, y) == FP + (3 * DirMag(x, y)) \div (WIDTH \div 2)

\* variant: the direction is not rotated
LaunchVelocityRadial(x, y) ==
  Vec(TDiv((x - WIDTH \div 2) * FP * LaunchSpeed(x, y), DirMag(x, y)),
      TDiv((y - HEIGHT \div 2) * FP * LaunchSpeed(x, y), DirMag(x, y)))

\* (vx, vy) = (dirY, -dirX) / dirMag * speed
LaunchVelocity(x, y) ==
  Vec(TDiv((y - HEIGHT \div 2) * FP * LaunchSpeed(x, y), DirMag(x, y)),
      TDiv((-(x - WIDTH \div 2)) * FP * LaunchSpeed(x, y), DirMag(x, y)))

\* Spacecraft(x, y, vx, vy): energy(0), prevEnergy(0), sparkle(false), empty trail.
\* Bookkeeping of the model: id (which tap made it), born (in which tick),
\* updates (integration steps taken), pre (position before the latest step),
\* stepTick (tick of the latest step).
NewSpacecraft(x, y, id, tick) ==
  [position |-> Vec(x * FP, y * FP), velocity |-> LaunchVelocity(x, y),
   trail |-> << >>, energy |-> 0, prevEnergy |-> 0, sparkle |-> FALSE,
   id |-> id, born |-> tick, updates |-> 0, pre |-> Vec(x * FP, y * FP),
   stepTick |-> 0]

\* ------------------------------------------------------------------ effects
NewExplosion(pos, size, id, tick) ==
  [x |-> pos.x, y |-> pos.y, size |-> size, life |-> EXPLOSION_LIFE,
   alpha |-> 255 * FP, id |-> id, born |-> tick]

NewSparkle(pos, id, tick) ==
  [x |-> pos.x, y |-> pos.y, life |-> SPARKLE_LIFE, id |-> id, born |-> tick]

\* life -= 1; alpha = 255 * (life / 30.0)
AgedExplosion(e) ==
  [e EXCEPT !.life = e.life - 1,
            !.alpha = TDiv(255 * FP * (e.life - 1), EXPLOSION_LIFE)]

\* life -= 1
AgedSparkle(e) == [e EXCEPT !.life = e.life - 1]

\* life <= 0
Expired(e) == e.life <= 0

\* variant: a frame exactly 33 ms late is still early
FrameEarlyInclusive(now, last) == now - last <= FRAME_INTERVAL

\* currentTime - lastFrameTime < 33
FrameEarly(now, last) == now - last < FRAME_INTERVAL

\* ------------------------------------------------------------------ bounds
\* the taps the user makes
TapSet == { <<170, 125>>, <<175, 120>>, <<180, 120>>, <<250, 150>>, <<260, 121>> }
\* the taps of the long run
LongTapSet == { <<175, 120>>, <<180, 120>>, <<160, 20>> }
\* taps all over the screen: every pixel around the Earth, a grid elsewhere
TapGrid ==
  { <<x, y>> : x \in 144 .. 176, y \in 104 .. 136 }
    \cup { <<20 * a, 20 * b>> : a \in 0 .. 15, b \in 0 .. 11 }
    \cup { <<WIDTH - 1, 20 * b>> : b \in 0 .. 11 }
    \cup { <<20 * a, HEIGHT - 1>> : a \in 0 .. 15 }
    \cup { <<WIDTH - 1, HEIGHT - 1>>, <<WIDTH \div 2 + 50, HEIGHT \div 2>> }
\* the tap that precedes a tap of TapGrid
FirstTaps == { <<175, 120>>, <<180, 120>> }
TapTicks == 2
\* milliseconds between two calls of loop()
Delays == {32, FRAME_INTERVAL, 70}
MaxTicks == 3
MaxTaps == 3
MaxJitter == 2
LongJitter == 1
TapJitter == 1
LongTicks == 362
LongTapFrom == 305
LongTapTo == 307
LongTaps == 1
\* |position - Earth| and |velocity| of a spacecraft the arithmetic covers
PosBound == 26000
\* a stage acceleration the arithmetic covers
AccBound == 300000000

\* ------------------------------------------------------------------ state
VARIABLES
  moonAngle, moonX, moonY, moonTrail,       \* Moon globals
  spacecrafts, sparkleEffects, explosionEffects,
  lastFrameTime, currentTime,               \* loop(): static / millis()
  touch,                                    \* the touch detail polled this tick
  pc, i,                                    \* position in loop(), loop index
  ticks, nextId, atLoopStart, visited, spawned,
  env                                       \* what is still to come: the taps
                                            \* (their ticks, their points), the
                                            \* irregular calls, the ticks

simVars == <<moonAngle, moonX, moonY, moonTrail, spacecrafts, sparkleEffects,
             explosionEffects>>
vars == <<moonAngle, moonX, moonY, moonTrail, spacecrafts, sparkleEffects,
          explosionEffects, lastFrameTime, currentTime, touch, pc, i,
          ticks, nextId, atLoopStart, visited, spawned, env>>

NoTouch == [pressed |-> FALSE, x |-> 0, y |-> 0]

\* setup(): moonAngle = 0; updateMoonPosition(); delay(2000)
Setup ==
  /\ moonAngle = 0
  /\ moonX = MoonXAt(0)
  /\ moonY = MoonYAt(0)
  /\ moonTrail = PushMoonTrail(<< >>, Vec(MoonXAt(0), MoonYAt(0)))
  /\ spacecrafts = << >>
  /\ sparkleEffects = << >>
  /\ explosionEffects = << >>
  /\ lastFrameTime = 0
  /\ currentTime = SETUP_DELAY
  /\ touch = NoTouch
  /\ pc = "idle"
  /\ i = 0
  /\ ticks = 0
  /\ nextId = 1
  /\ atLoopStart = << >>
  /\ visited = << >>
  /\ spawned = {}

Init ==
  /\ Setup
  /\ env = [jitter |-> MaxJitter, ticks |-> MaxTicks,
            taps |-> [k \in 1 .. MaxTaps |-> [at |-> 1 .. MaxTicks, points |-> TapSet]]]

InitLong ==
  /\ Setup
  /\ env = [jitter |-> LongJitter, ticks |-> LongTicks,
            taps |-> [k \in 1 .. LongTaps |->
                       [at |-> LongTapFrom .. LongTapTo, points |-> LongTapSet]]]

InitTap ==
  /\ Setup
  /\ env = [jitter |-> TapJitter, ticks |-> TapTicks,
            taps |-> <<[at |-> {1}, points |-> FirstTaps],
                       [at |-> {2}, points |-> TapGrid]>>]

JitterAfter(d) == IF d = FRAME_INTERVAL THEN env.jitter ELSE env.jitter - 1

\* loop(): the frame is not due, return
LoopEarly ==
  \E d \in Delays :
    /\ pc = "idle"
    /\ JitterAfter(d) >= 0
    /\ FrameEarly(currentTime + d, lastFrameTime)
    /\ currentTime' = currentTime + d
    /\ env' = [env EXCEPT !.jitter = JitterAfter(d)]
    /\ UNCHANGED <<simVars, lastFrameTime, touch, pc, i, ticks, nextId,
                   atLoopStart, visited, spawned>>

\* loop(): the frame is due; lastFrameTime = currentTime; M5.update()
LoopGate ==
  \E d \in Delays :
    /\ pc = "idle"
    /\ JitterAfter(d) >= 0
    /\ ticks < env.ticks
    /\ ~FrameEarly(currentTime + d, lastFrameTime)
    /\ currentTime' = currentTime + d
    /\ lastFrameTime' = currentTime + d
    /\ env' = [env EXCEPT !.jitter = JitterAfter(d)]
    /\ pc' = "touch"
    /\ ticks' = ticks + 1
    /\ UNCHANGED <<simVars, touch, i, nextId, atLoopStart, visited, spawned>>

\* M5.Touch.getCount() == 0, or the touch was not newly pressed
TouchNone ==
  /\ pc = "touch"
  /\ touch' = NoTouch
  /\ pc' = "moon"
  /\ UNCHANGED <<simVars, lastFrameTime, currentTime, i, ticks, nextId,
                 atLoopStart, visited, spawned, env>>

\* addSpacecraft(x, y), called from loop() for a new press at (x, y)
addSpacecraft(x, y) ==
  IF ClickedEarth(x, y)
    THEN /\ spacecrafts' = << >>
         /\ sparkleEffects' = << >>
         /\ spawned' = {s \in spawned : s.kind # "sparkle"}
         /\ UNCHANGED nextId
    ELSE /\ spacecrafts' = Append(spacecrafts, NewSpacecraft(x, y, nextId, ticks))
         /\ nextId' = nextId + 1
         /\ UNCHANGED <<sparkleEffects, spawned>>

TouchPressed ==
  \E t \in (IF env.taps = << >> THEN {} ELSE Head(env.taps).points) :
    /\ pc = "touch"
    /\ ticks \in Head(env.taps).at
    /\ touch' = [pressed |-> TRUE, x |-> t[1], y |-> t[2]]
    /\ addSpacecraft(t[1], t[2])
    /\ env' = [env EXCEPT !.taps = Tail(env.taps)]
    /\ pc' = "moon"
    /\ UNCHANGED <<moonAngle, moonX, moonY, moonTrail, explosionEffects,
                   lastFrameTime, currentTime, i, ticks, atLoopStart, visited>>

\* moonAngle += MOON_ANGULAR_VELOCITY; updateMoonPosition(); enter the first loop
MoonStep ==
  /\ pc = "moon"
  /\ moonAngle' = moonAngle + 1
  /\ moonX' = MoonXAt(moonAngle + 1)
  /\ moonY' = MoonYAt(moonAngle + 1)
  /\ moonTrail' = PushMoonTrail(moonTrail, Vec(MoonXAt(moonAngle + 1), MoonYAt(moonAngle + 1)))
  /\ pc' = "craft"
  /\ i' = Len(spacecrafts)
  /\ atLoopStart' = spacecrafts
  /\ visited' = << >>
  /\ UNCHANGED <<spacecrafts, sparkleEffects, explosionEffects, lastFrameTime,
                 currentTime, touch, ticks, nextId, spawned, env>>


\* ------------------------------------------------------------------ update
\* the step stays inside the fixed-point arithmetic: no stage samples a body's
\* centre (the doubles become NaN there) and nothing leaves the covered range
StepCovered(pos, vel, mx, my) ==
  LET st == RKStages(4, pos, vel, mx, my)
  IN /\ \A n \in 1 .. 4 :
          /\ ~Singular(st[n].p, mx, my)
          /\ Abs(st[n].v.x) <= AccBound
          /\ Abs(st[n].v.y) <= AccBound
     /\ LET r == RKStep(pos, vel, mx, my)
        IN /\ Abs(r.position.x - EarthX) <= PosBound
           /\ Abs(r.position.y - EarthY) <= PosBound
           /\ Abs(r.velocity.x) <= PosBound
           /\ Abs(r.velocity.y) <= PosBound
           /\ ~(r.position.x = EarthX /\ r.position.y = EarthY)

\* Spacecraft::update() on c with the Moon at (mx, my): whether the spacecraft
\* is to be removed, the spacecraft afterwards, and the effects pushed
update(c, mx, my, id, tick) ==
  IF HitsEarth(c.position)
    THEN [destroyed |-> TRUE, craft |-> c,
          explosions |-> <<NewExplosion(c.position, EARTH_EXPLOSION_SIZE, id, tick)>>,
          sparkles |-> << >>]
  ELSE IF HitsMoon(c.position, mx, my)
    THEN [destroyed |-> TRUE, craft |-> c,
          explosions |-> <<NewExplosion(c.position, MOON_EXPLOSION_SIZE, id, tick)>>,
          sparkles |-> << >>]
  ELSE
    LET r == RKStep(c.position, c.velocity, mx, my)
        e == OrbitalEnergy(r.position, r.velocity)
        up == ExceedsThreshold(e - c.energy)
    IN [destroyed |-> FALSE,
        craft |-> [c EXCEPT !.prevEnergy = c.energy,
                            !.velocity = r.velocity,
                            !.position = r.position,
                            !.trail = PushTrail(c.trail, r.position),
                            !.energy = e,
                            !.sparkle = up,
                            !.updates = c.updates + 1,
                            !.pre = c.position,
                            !.stepTick = tick],
        explosions |-> << >>,
        sparkles |-> IF up THEN <<NewSparkle(r.position, id, tick)>> ELSE << >>]

Log(effects, kind) == {[id |-> e.id, kind |-> kind, born |-> e.born] : e \in Range(effects)}

\* one iteration of  for (i = size - 1; i >= 0; i--) if (spacecrafts[i].update()) erase
UpdateSpacecraft ==
  /\ pc = "craft"
  /\ i > 0
  /\ LET c == spacecrafts[i]
     IN /\ HitsEarth(c.position) \/ HitsMoon(c.position, moonX, moonY)
           \/ StepCovered(c.position, c.velocity, moonX, moonY)
        /\ LET u == update(c, moonX, moonY, nextId, ticks)
           IN /\ spacecrafts' = IF u.destroyed THEN Erase(spacecrafts, i)
                                ELSE [spacecrafts EXCEPT ![i] = u.craft]
              /\ explosionEffects' = explosionEffects \o u.explosions
              /\ sparkleEffects' = sparkleEffects \o u.sparkles
              /\ spawned' = spawned \cup Log(u.explosions, "explosion")
                                    \cup Log(u.sparkles, "sparkle")
              /\ nextId' = nextId + Len(u.explosions) + Len(u.sparkles)
              /\ visited' = Append(visited, c.id)
  /\ i' = i - 1
  /\ UNCHANGED <<moonAngle, moonX, moonY, moonTrail, lastFrameTime, currentTime,
                 touch, pc, ticks, atLoopStart, env>>

\* the spacecraft loop ends; the explosion loop starts at the last element
SpacecraftLoopExit ==
  /\ pc = "craft"
  /\ i = 0
  /\ pc' = "explosion"
  /\ i' = Len(explosionEffects)
  /\ atLoopStart' = explosionEffects
  /\ visited' = << >>
  /\ UNCHANGED <<simVars, lastFrameTime, currentTime, touch, ticks, nextId,
                 spawned, env>>

\* one iteration of the explosion loop: age, erase when expired
AgeExplosion ==
  /\ pc = "explosion"
  /\ i > 0
  /\ LET e == AgedExplosion(explosionEffects[i])
     IN /\ explosionEffects' = IF Expired(e) THEN Erase(explosionEffects, i)
                               ELSE [explosionEffects EXCEPT ![i] = e]
        /\ visited' = Append(visited, e.id)
  /\ i' = i - 1
  /\ UNCHANGED <<moonAngle, moonX, moonY, moonTrail, spacecrafts, sparkleEffects,
                 lastFrameTime, currentTime, touch, pc, ticks, nextId,
                 atLoopStart, spawned, env>>

\* the explosion loop ends; the sparkle loop starts at the last element
ExplosionLoopExit ==
  /\ pc = "explosion"
  /\ i = 0
  /\ pc' = "sparkle"
  /\ i' = Len(sparkleEffects)
  /\ atLoopStart' = sparkleEffects
  /\ visited' = << >>
  /\ UNCHANGED <<simVars, lastFrameTime, currentTime, touch, ticks, nextId,
                 spawned, env>>

\* one iteration of the sparkle loop: age, erase when expired
AgeSparkle ==
  /\ pc = "sparkle"
  /\ i > 0
  /\ LET e == AgedSparkle(sparkleEffects[i])
     IN /\ sparkleEffects' = IF Expired(e) THEN Erase(sparkleEffects, i)
                             ELSE [sparkleEffects EXCEPT ![i] = e]
        /\ visited' = Append(visited, e.id)
  /\ i' = i - 1
  /\ UNCHANGED <<moonAngle, moonX, moonY, moonTrail, spacecrafts, explosionEffects,
                 lastFrameTime, currentTime, touch, pc, ticks, nextId,
                 atLoopStart, spawned, env>>

\* the sparkle loop ends; drawToSprite(); pushSprite(); loop() returns
SparkleLoopExit ==
  /\ pc = "sparkle"
  /\ i = 0
  /\ pc' = "idle"
  /\ UNCHANGED <<simVars, lastFrameTime, currentTime, touch, i, ticks, nextId,
                 atLoopStart, visited, spawned, env>>

Next ==
  \/ LoopEarly
  \/ LoopGate
  \/ TouchNone
  \/ TouchPressed
  \/ MoonStep
  \/ UpdateSpacecraft
  \/ SpacecraftLoopExit
  \/ AgeExplosion
  \/ ExplosionLoopExit
  \/ AgeSparkle
  \/ SparkleLoopExit

Spec == Init /\ [][Next]_vars

SpecLong == InitLong /\ [][Next]_vars

SpecTap == InitTap /\ [][Next]_vars


\* ------------------------------------------------------------------ properties
\* squared distance between two points
DistSq(ax, ay, bx, by) == (ax - bx) * (ax - bx) + (ay - by) * (ay - by)

\* pos is at distance <= 15 pixels from the screen centre
InsideEarth(pos) ==
  DistSq(pos.x, pos.y, 160 * FP, 120 * FP) <= (15 * FP) * (15 * FP)

\* pos is at distance <= 5 pixels from the Moon's current centre
InsideMoon(pos) ==
  DistSq(pos.x, pos.y, moonX, moonY) <= (5 * FP) * (5 * FP)

Ids(s) == [k \in 1 .. Len(s) |-> s[k].id]

\* the tick has run all its loops and loop() has returned
TickDone == pc = "idle" /\ ticks > 0

\* C1, step part: an update() of a spacecraft inside Earth's or the Moon's radius
\* removes it and appends one explosion at its position (life 30, size 15 for
\* Earth, 10 for the Moon); an update of any other spacecraft keeps it and
\* appends no explosion
C1Step ==
  (pc = "craft" /\ i > 0) =>
    LET c == spacecrafts[i]
        n == Len(explosionEffects)
    IN IF InsideEarth(c.position) \/ InsideMoon(c.position)
         THEN /\ Len(spacecrafts') = Len(spacecrafts) - 1
              /\ \A k \in 1 .. Len(spacecrafts') : spacecrafts'[k].id # c.id
              /\ Len(explosionEffects') = n + 1
              /\ SubSeq(explosionEffects', 1, n) = explosionEffects
              /\ explosionEffects'[n + 1].x = c.position.x
              /\ explosionEffects'[n + 1].y = c.position.y
              /\ explosionEffects'[n + 1].life = 30
              /\ explosionEffects'[n + 1].size
                   = (IF InsideEarth(c.position) THEN 15 ELSE 10)
         ELSE /\ explosionEffects' = explosionEffects
              /\ Len(spacecrafts') = Len(spacecrafts)
              /\ spacecrafts'[i].id = c.id

\* C1, count part: during the spacecraft loop, the explosions spawned in this
\* tick are as many as the spacecraft the loop has removed
C1Count ==
  pc = "craft" =>
    Cardinality({k \in 1 .. Len(explosionEffects) : explosionEffects[k].born = ticks})
      = Len(atLoopStart) - Len(spacecrafts)

\* C1: a spacecraft in collision when its update() runs is removed in that tick,
\* not integrated, and spawns exactly one explosion; explosions spawned in a
\* tick equal spacecraft removed by the update loop; no collision, no explosion
C1_CollisionRemovesAndExplodes == [][C1Step]_vars /\ []C1Count

\* an update loop has ended that removed one spacecraft on Earth, one on the
\* Moon, and integrated a third
C1_Witness ==
  /\ pc = "craft" /\ i = 0
  /\ \E a, b \in 1 .. Len(explosionEffects) :
       /\ explosionEffects[a].born = ticks /\ explosionEffects[a].size = 15
       /\ explosionEffects[b].born = ticks /\ explosionEffects[b].size = 10
  /\ \E k \in 1 .. Len(spacecrafts) : spacecrafts[k].stepTick = ticks

\* new results from pushing one point on old under the cap, oldest point first out
FifoPush(old, new, cap) ==
  \/ new = old
  \/ /\ Len(new) > 0
     /\ new = (IF Len(old) < cap THEN Append(old, new[Len(new)])
               ELSE Append(Tail(old), new[Len(new)]))

C2Caps ==
  /\ Len(moonTrail) <= 360
  /\ \A k \in 1 .. Len(spacecrafts) : Len(spacecrafts[k].trail) <= 50

C2Step ==
  /\ FifoPush(moonTrail, moonTrail', 360)
  /\ \A k \in 1 .. Len(spacecrafts) : \A j \in 1 .. Len(spacecrafts') :
       spacecrafts[k].id = spacecrafts'[j].id
         => FifoPush(spacecrafts[k].trail, spacecrafts'[j].trail, 50)

\* C2: every spacecraft trail has at most 50 points and the Moon trail at most
\* 360, in every state; a trail grows by appending and drops its oldest point
\* when the new point would exceed the cap
C2_TrailCaps == []C2Caps /\ [][C2Step]_vars

\* both trails are full and have evicted points
C2_Witness ==
  /\ Len(moonTrail) = 360 /\ moonAngle > 360
  /\ \E k \in 1 .. Len(spacecrafts) :
       Len(spacecrafts[k].trail) = 50 /\ spacecrafts[k].updates > 50

Life(kind) == IF kind = "sparkle" THEN 20 ELSE 30

Present(s) ==
  \/ \E k \in 1 .. Len(explosionEffects) : explosionEffects[k].id = s.id
  \/ \E k \in 1 .. Len(sparkleEffects) : sparkleEffects[k].id = s.id

\* C3: an effect created with life L (sparkle 20, explosion 30) is present at
\* the end of L ticks, the tick that creates it counted as the first, and absent
\* at the end of the tick after those (sparkles cleared by a reset excepted)
C3_EffectLivesLTicks ==
  TickDone =>
    \A s \in spawned : Present(s) <=> (ticks - s.born < Life(s.kind))

\* what the program does: the effect is present at the end of L - 1 ticks
C3_EffectLivesLMinusOneTicks ==
  TickDone =>
    \A s \in spawned : Present(s) <=> (ticks - s.born < Life(s.kind) - 1)

\* an effect reaches the tick in which its life runs out
C3_EffectExpires ==
  /\ TickDone
  /\ \E s \in spawned : ticks - s.born = Life(s.kind) - 1 /\ ~Present(s)

MoonState == <<moonAngle, moonX, moonY, moonTrail>>

\* C4: a tap within Earth's radius (distance <= 15) leaves no spacecraft and no
\* sparkle, and leaves the explosions and the Moon as they were
C4_EarthTapResets ==
  [][(pc = "touch" /\ touch'.pressed
        /\ DistSq(touch'.x, touch'.y, 160, 120) <= 15 * 15)
       => /\ spacecrafts' = << >>
          /\ sparkleEffects' = << >>
          /\ explosionEffects' = explosionEffects
          /\ MoonState' = MoonState]_vars

\* the same for taps strictly inside the radius, the tap handler's own test
C4_InnerTapResets ==
  [][(pc = "touch" /\ touch'.pressed
        /\ DistSq(touch'.x, touch'.y, 160, 120) < 15 * 15)
       => /\ spacecrafts' = << >>
          /\ sparkleEffects' = << >>
          /\ explosionEffects' = explosionEffects
          /\ MoonState' = MoonState]_vars

\* C5: no tap creates a spacecraft that its first update classifies as an Earth
\* collision: a spacecraft not yet updated is strictly outside Earth's radius
C5_NoSpacecraftBornOnEarth ==
  \A k \in 1 .. Len(spacecrafts) :
    spacecrafts[k].updates = 0 => ~InsideEarth(spacecrafts[k].position)

\* C6: at the end of every executed tick no live spacecraft is inside Earth's
\* radius or inside the Moon's radius
C6_NoLiveSpacecraftInsideBody ==
  TickDone =>
    \A k \in 1 .. Len(spacecrafts) :
      ~InsideEarth(spacecrafts[k].position) /\ ~InsideMoon(spacecrafts[k].position)

\* C6 amended: at the end of every executed tick every live spacecraft has been
\* stepped in that tick from a position outside both radii
C6_NoLiveSpacecraftSteppedFromInside ==
  TickDone =>
    \A k \in 1 .. Len(spacecrafts) :
      /\ spacecrafts[k].stepTick = ticks
      /\ ~InsideEarth(spacecrafts[k].pre)
      /\ ~InsideMoon(spacecrafts[k].pre)

\* a live spacecraft ends a tick inside Earth's radius, another survived a tick
\* in which a third was removed
C6_Witness ==
  /\ TickDone
  /\ \E k \in 1 .. Len(spacecrafts) : InsideEarth(spacecrafts[k].position)
  /\ \E k \in 1 .. Len(explosionEffects) : explosionEffects[k].born = ticks

\* C7: a non-colliding update spawns one sparkle (life 20, at the new position)
\* and sets the flag iff the orbital energy after the step exceeds the orbital
\* energy before the step by more than 0.1; else no sparkle, flag cleared
C7Step ==
  (pc = "craft" /\ i > 0
     /\ ~InsideEarth(spacecrafts[i].position) /\ ~InsideMoon(spacecrafts[i].position))
  => LET c == spacecrafts[i]
         d == spacecrafts'[i]
         n == Len(sparkleEffects)
         gain == OrbitalEnergy(d.position, d.velocity)
                   - OrbitalEnergy(c.position, c.velocity)
     IN IF 10 * gain > FP * FP
          THEN /\ d.sparkle
               /\ Len(sparkleEffects') = n + 1
               /\ SubSeq(sparkleEffects', 1, n) = sparkleEffects
               /\ sparkleEffects'[n + 1].life = 20
               /\ sparkleEffects'[n + 1].x = d.position.x
               /\ sparkleEffects'[n + 1].y = d.position.y
          ELSE ~d.sparkle /\ sparkleEffects' = sparkleEffects

C7_SparkleIffEnergyGain == [][C7Step]_vars

\* the same, for the updates after a spacecraft's first
C7_LaterUpdates == [][(pc = "craft" /\ i > 0 /\ spacecrafts[i].updates > 0) => C7Step]_vars

\* a spacecraft takes the first update of its life without a collision, gains
\* more than 0.1 of orbital energy in the step, and gets no sparkle
C7_FirstUpdateGain ==
  /\ pc = "craft"
  /\ \E k \in 1 .. Len(spacecrafts) :
       LET c == spacecrafts[k]
       IN /\ c.updates = 1 /\ c.stepTick = ticks /\ ~c.sparkle
          /\ 10 * (c.energy - OrbitalEnergy(c.pre, LaunchVelocity(touch.x, touch.y)))
               > FP * FP
          /\ touch.pressed /\ c.pre = Vec(touch.x * FP, touch.y * FP)

\* C8, for one tap: the velocity v of the spacecraft made by the tap at (x, y) is
\* (dirY, -dirX) / |dir| * speed with speed = 1 + 3 * (|dir| / (WIDTH / 2)), to
\* the precision of the grid (4 / FP in the length): perpendicular to dir,
\* turned from dir toward (dirY, -dirX), of length speed
TangentialLaunch(x, y, v) ==
  LET dirX == x - 160
      dirY == y - 120
      r == Sqrt(dirX * dirX + dirY * dirY)
      len == Sqrt(v.x * v.x + v.y * v.y)
  IN /\ Abs(v.x * dirX + v.y * dirY) <= Abs(dirX) + Abs(dirY)
     /\ dirX * v.y - dirY * v.x < 0
     /\ 160 * (len + 4) >= 160 * FP + 3 * FP * r
     /\ 160 * (len - 4) <= 160 * FP + 3 * FP * (r + 1)
     /\ (x = 160 + 50 /\ y = 120) => (v.x = 0 /\ Abs(v.y) * 160 = (160 + 3 * 50) * FP)

C8Step ==
  (pc = "touch" /\ touch'.pressed
     /\ DistSq(touch'.x, touch'.y, 160, 120) > 15 * 15)
  => LET n == Len(spacecrafts)
     IN /\ Len(spacecrafts') = n + 1
        /\ SubSeq(spacecrafts', 1, n) = spacecrafts
        /\ spacecrafts'[n + 1].position = Vec(touch'.x * FP, touch'.y * FP)
        /\ TangentialLaunch(touch'.x, touch'.y, spacecrafts'[n + 1].velocity)
        /\ sparkleEffects' = sparkleEffects
        /\ explosionEffects' = explosionEffects

\* C8: a tap outside Earth's radius appends exactly one spacecraft at the tap
\* position, leaves the other spacecraft and the effects unchanged, and gives
\* it the tangential velocity of length 1 + 3 * (|dir| / (WIDTH / 2))
C8_TapLaunchesTangentially == [][C8Step]_vars

\* the tap at (WIDTH/2 + 50, HEIGHT/2) has been handled while an explosion of an
\* earlier spacecraft was present
C8_Witness ==
  /\ pc = "moon" /\ touch.pressed /\ touch.x = 210 /\ touch.y = 120
  /\ Len(explosionEffects) > 0
  /\ Len(spacecrafts) > 0
  /\ spacecrafts[Len(spacecrafts)].velocity = Vec(0, -124)

\* the collection the running loop iterates
LoopCollection ==
  IF pc = "craft" THEN spacecrafts
  ELSE IF pc = "explosion" THEN explosionEffects
  ELSE sparkleEffects

\* what one visit does to the element e of the loop's collection
VisitedOnce(e, now) ==
  IF pc = "craft"
    THEN \/ \A k \in 1 .. Len(now) : now[k].id # e.id
         \/ \E k \in 1 .. Len(now) :
              /\ now[k].id = e.id
              /\ now[k].updates = e.updates + 1
              /\ now[k].stepTick = ticks
    ELSE \/ e.life - 1 <= 0 /\ \A k \in 1 .. Len(now) : now[k].id # e.id
         \/ e.life - 1 > 0 /\ \E k \in 1 .. Len(now) :
              now[k].id = e.id /\ now[k].life = e.life - 1

C9_AdjacentRemoved ==
  /\ pc = "craft" /\ i = 0
  /\ Len(atLoopStart) = 3
  /\ Len(spacecrafts) = 1
  /\ spacecrafts[1].id = atLoopStart[3].id

C10Step ==
  pc = "idle" =>
    IF currentTime' - lastFrameTime < 33
      THEN UNCHANGED <<moonAngle, moonX, moonY, moonTrail, spacecrafts,
                       sparkleEffects, explosionEffects, lastFrameTime, touch, pc>>
      ELSE /\ lastFrameTime' = currentTime'
           /\ pc' = "touch"

\* the ticks executed are the frames that passed the gate, one Moon step each
C10Count ==
  /\ moonAngle = (IF pc \in {"touch", "moon"} THEN ticks - 1 ELSE ticks)
  /\ pc # "idle" => lastFrameTime = currentTime
  /\ pc = "idle" => currentTime >= lastFrameTime

\* C10: a call of loop() less than 33 ms after the last executed tick changes
\* nothing; a call 33 ms or more after it runs exactly one tick, however late,
\* and sets lastFrameTime to the current time
C10_FrameGate == [][C10Step]_vars /\ []C10Count

\* a tick has run 70 ms after the one before, and a call 32 ms after it returned
C10_Witness ==
  /\ pc = "idle" /\ ticks >= 2
  /\ currentTime - lastFrameTime = 32
  /\ lastFrameTime - SETUP_DELAY = 33 * (ticks - 1) + 70

=============================================================================
